---- MODULE Spec2Model ----
(***************************************************************************)
(* Call signaling and session lifecycle of expo-auth.                      *)
(*                                                                         *)
(*   utils/webrtc-helper.js   createCall / joinCall over a Firestore       *)
(*                            "calls" collection with two candidate        *)
(*                            sub-collections                              *)
(*                                                                         *)
(*   VideoCallScreen          the call screen component (React state,     *)
(*                            closures, effects, timers, alerts)           *)
(*   VideoCallImplementation  the embeddable call component                *)
(*                                                                         *)
(* A "run" is one invocation of createCall or joinCall.  Each run owns the *)
(* RTCPeerConnection it constructs and the snapshot listeners it           *)
(* registers, so peer connections and listeners are indexed by run.        *)
(*                                                                         *)
(* A component is modelled with React's rules: ui is the state of the      *)
(* committed render, which is what every closure created by that render    *)
(* captures; the set-state calls of a user gesture render at once, those   *)
(* of timers and promise continuations queue into pend and reach ui at the *)
(* next render; the passive effects of a commit are flushed after it,      *)
(* before the next render and before a user gesture is handled.            *)
(***************************************************************************)
EXTENDS Integers, Sequences, FiniteSets, TLC

\* ------------------------------------------------------------------------
\* Bounds
\* ------------------------------------------------------------------------
MaxRuns == 3        \* invocations of createCall / joinCall
MaxCalls == 1       \* documents addDoc may create in "calls"
MaxCand == 1        \* ICE candidates one transport discovers
MaxStreams == 1     \* local streams getUserMedia hands out
MaxPresses == 3     \* user gestures (typing, buttons, dialog buttons)
MaxAttempts == 2    \* createCall / joinCall invocations of the component
MaxLoss == 6        \* packetsLost of a stats report

Runs == 1..MaxRuns
CallIds == 1..MaxCalls
\* a call id a joiner can type that addDoc never hands out
StaleId == MaxCalls + 1
JoinIds == CallIds \cup {StaleId}
Cands == Runs \X (1..MaxCand)
Streams == 1..MaxStreams
\* auth.currentUser.uid of the user of the modelled component and of its
\* remote peer; the uid of a caller of the bare helper is its run number
Me == MaxRuns + 1
Peer == MaxRuns + 2

VARIABLES
    calls,              \* calls/{id}: the CallRecord documents
    nextCallId,         \* next auto-id addDoc hands out
    callerCandidates,   \* calls/{id}/callerCandidates
    calleeCandidates,   \* calls/{id}/calleeCandidates
    run,                \* position of each createCall / joinCall invocation
    pc,                 \* the RTCPeerConnection constructed by each run
    lsn,                \* the onSnapshot listeners registered by each run
    ui,                 \* component state of the committed render
    pend,               \* queued set-state calls not rendered yet
    inv,                \* startCall / joinCall invocations of the component
    timers,             \* pending setTimeout / setInterval callbacks
    alerts,             \* Alert dialogs on screen
    cln,                \* cleanup() invocations suspended at deleteDoc
    streams,            \* local MediaStreams handed out by getUserMedia
    media,              \* getUserMedia request of the component
    eff,                \* dependency and closure of the registered effect
    embedded,           \* the embedded prop of VideoCallImplementation
    obs                 \* observations of the component's side effects

storeVars == <<calls, nextCallId, callerCandidates, calleeCandidates>>
helperVars == <<run, pc, lsn>>
sessRest == <<ui, inv, timers, alerts, cln, streams, media, eff, embedded, obs>>
sessVars == <<ui, pend, inv, timers, alerts, cln, streams, media, eff, embedded, obs>>
vars == <<calls, nextCallId, callerCandidates, calleeCandidates, run, pc, lsn,
          ui, pend, inv, timers, alerts, cln, streams, media, eff, embedded, obs>>

\* ------------------------------------------------------------------------
\* Firestore documents
\* ------------------------------------------------------------------------
NoDoc == [exists |-> FALSE, offer |-> 0, answer |-> 0, createdBy |-> 0, answeredBy |-> 0]

\* the document written by addDoc in createCall; an SDP blob is identified
\* by the run whose peer connection produced it, a user by the run's uid
OfferDoc(r, uid) ==
    [exists |-> TRUE, offer |-> r, answer |-> 0, createdBy |-> uid, answeredBy |-> 0]

\* updateDoc(callDoc, {answer, answeredBy}): merges the two fields into the
\* document, whatever they held before
AnswerUpdate(d, r, uid) == [d EXCEPT !.answer = r, !.answeredBy = uid]

FreeRun == [kind |-> "free", at |-> "free", uid |-> 0, stream |-> 0, callId |-> 0,
            err |-> "none", data |-> NoDoc]

\* remoteDesc is currentRemoteDescription (0: null); srdInFlight are the
\* answers whose setRemoteDescription the call listener has invoked and the
\* transport has not finished; iceCount counts addIceCandidate invocations
\* per candidate, iceEarly those made while remoteDesc was null, iceClosed
\* those made after close(); ontrack tells whether a track handler is
\* assigned, trackMissed whether a track event fired without one; conn is
\* the transport's connection state while the connection is not closed
NoPc == [state |-> "none", localDesc |-> "none", remoteDesc |-> 0,
         srdInFlight |-> <<>>, srdCalls |-> 0, srdRejected |-> 0,
         onicecandidate |-> FALSE, discovered |-> 0, lost |-> {},
         iceCount |-> [c \in Cands |-> 0], iceEarly |-> {}, iceClosed |-> {},
         closeCalls |-> 0, ontrack |-> FALSE, trackMissed |-> FALSE, conn |-> "new"]

NoLsn == [callSub |-> FALSE, callSnaps |-> <<>>, candSub |-> FALSE, candSeen |-> {}]

\* every doc listener of call id receives the new state of the document
NotifyCall(l, id, d) ==
    [r \in Runs |->
        IF l[r].callSub /\ run[r].callId = id
        THEN [l[r] EXCEPT !.callSnaps = Append(@, d)]
        ELSE l[r]]

\* a MediaStream getUserMedia has not handed out yet; audio and video are
\* the enabled flags of its two tracks, back tells whether the video track
\* was switched to the back camera
NoStream == [state |-> "none", stops |-> 0, audio |-> TRUE, video |-> TRUE, back |-> FALSE]

\* ------------------------------------------------------------------------
\* React component state
\* ------------------------------------------------------------------------
\* useState initial values; 0 stands for null and for the empty call id
InitUi == [localStream |-> 0, remoteStream |-> 0, peerConnection |-> 0, callId |-> 0,
           isCaller |-> FALSE, isCallStarted |-> FALSE, isJoining |-> FALSE,
           callStatus |-> "", retryCount |-> 0, webRTCError |-> FALSE,
           isMuted |-> FALSE, isVideoEnabled |-> TRUE, callQuality |-> "good"]

NoPend == [vals |-> InitUi, flds |-> {}]

\* the set-state calls of upd (a record of the fields set) queued behind p
SetState(p, upd) ==
    [vals |-> [f \in DOMAIN p.vals |-> IF f \in DOMAIN upd THEN upd[f] ELSE p.vals[f]],
     flds |-> p.flds \cup DOMAIN upd]

\* the state the next render will have
Rendered(u, p) == [f \in DOMAIN u |-> IF f \in p.flds THEN p.vals[f] ELSE u[f]]

NoInv == [fn |-> "none", at |-> "none", retry |-> 0, cap |-> InitUi]

\* of the latest cleanup(): what it was asked to release (hadPc,
\* wantsDelete) and how far it got; deletes counts the deleteDoc calls per
\* call id, removed the call documents they removed; presses counts the
\* user gestures, asked the gestures that ask for a start or join, entered
\* the startCall / joinCall invocations of the component; timedOut records
\* the start and join timeouts that fired, lost the connection states on
\* which the connection monitor reported a lost connection, toggles the
\* presses of the mute, camera and switch buttons, samples the last two
\* stats reports the quality monitor processed, stats the getStats()
\* requests of the monitor that resolved
NoObs == [stopThrew |-> FALSE, closeTried |-> FALSE, closeThrew |-> FALSE,
          deleteTried |-> FALSE, stateReset |-> FALSE, hadPc |-> FALSE,
          wantsDelete |-> FALSE,
          deletes |-> [id \in JoinIds |-> 0],
          removed |-> {}, presses |-> 0, asked |-> 0, entered |-> 0,
          timedOut |-> {}, lost |-> {}, toggles |-> {}, samples |-> <<>>, stats |-> {}]

\* the track event of a remote description that carries the peer's tracks:
\* the component's ontrack handler, when assigned, sets remoteStream
FireTrack(p, sdp) == IF p.ontrack THEN p ELSE [p EXCEPT !.trackMissed = TRUE]
TrackHandler(r, sdp) ==
    IF pc[r].ontrack THEN SetState(pend, [remoteStream |-> sdp]) ELSE pend

LowestFree == CHOOSE r \in Runs : run[r].kind = "free" /\ \A q \in Runs : run[q].kind = "free" => r <= q
HasFree == \E r \in Runs : run[r].kind = "free"
\* the component may invoke the helper once more
MayAttempt == HasFree /\ Cardinality({r \in Runs : run[r].uid = Me}) < MaxAttempts

\* ------------------------------------------------------------------------
\* createCall (utils/webrtc-helper.js)
\* ------------------------------------------------------------------------
\* the synchronous prefix: argument check, new RTCPeerConnection, addTrack,
\* up to the first await (createOffer)
CreateCallEntry(r, stream, uid) ==
    IF stream = 0 \/ uid = 0
    THEN /\ run' = [run EXCEPT ![r] = [FreeRun EXCEPT !.kind = "create", !.at = "threw",
                                                        !.err = "args", !.uid = uid]]
         /\ pc' = pc
    ELSE /\ run' = [run EXCEPT ![r] = [FreeRun EXCEPT !.kind = "create", !.at = "createOffer",
                                                        !.uid = uid, !.stream = stream]]
         /\ pc' = [pc EXCEPT ![r] = [NoPc EXCEPT !.state = "open"]]

\* await pc.createOffer() settles
CreateOfferDone(r) ==
    /\ run[r].kind = "create" /\ run[r].at = "createOffer"
    /\ \E ok \in BOOLEAN :
          run' = [run EXCEPT ![r].at = IF ok THEN "setLocalOffer" ELSE "threw",
                             ![r].err = IF ok THEN "none" ELSE "offer"]
    /\ UNCHANGED <<storeVars, pc, lsn>>
    /\ UNCHANGED sessVars

\* await pc.setLocalDescription(offer) settles
CreateSetLocalDone(r) ==
    /\ run[r].kind = "create" /\ run[r].at = "setLocalOffer"
    /\ run' = [run EXCEPT ![r].at = "addDoc"]
    /\ pc' = [pc EXCEPT ![r].localDesc = "offer"]
    /\ UNCHANGED <<storeVars, lsn>>
    /\ UNCHANGED sessVars

\* await addDoc(callsRef, {offer, createdAt, createdBy}) rejects
CreateAddDocFail(r) ==
    /\ run[r].kind = "create" /\ run[r].at = "addDoc"
    /\ run' = [run EXCEPT ![r].at = "threw", ![r].err = "store"]
    /\ UNCHANGED <<storeVars, pc, lsn>>
    /\ UNCHANGED sessVars

\* await addDoc(...) resolves; then, without suspending: onicecandidate is
\* assigned, both listeners are registered, and the result is returned
CreateAddDoc(r) ==
    /\ run[r].kind = "create" /\ run[r].at = "addDoc"
    /\ nextCallId <= MaxCalls
    /\ LET id == nextCallId
           d == OfferDoc(r, run[r].uid)
       IN /\ calls' = [calls EXCEPT ![id] = d]
          /\ nextCallId' = nextCallId + 1
          /\ run' = [run EXCEPT ![r].at = "done", ![r].callId = id]
          /\ pc' = [pc EXCEPT ![r].onicecandidate = TRUE]
          /\ lsn' = [lsn EXCEPT ![r] = [NoLsn EXCEPT !.callSub = TRUE, !.callSnaps = <<d>>,
                                                      !.candSub = TRUE]]
    /\ UNCHANGED <<callerCandidates, calleeCandidates>>
    /\ UNCHANGED sessVars

\* callListener: onSnapshot(doc(db,'calls',id)) callback up to its await;
\* the continuation of a component awaiting createCall runs before it
CallSnapshot(r) ==
    /\ lsn[r].callSub /\ lsn[r].callSnaps # <<>>
    /\ inv[r].at # "await"
    /\ LET d == Head(lsn[r].callSnaps)
       IN /\ lsn' = [lsn EXCEPT ![r].callSnaps = Tail(@)]
          /\ pc' = IF pc[r].remoteDesc = 0 /\ d.exists /\ d.answer # 0
                   THEN [pc EXCEPT ![r].srdInFlight = Append(@, d.answer),
                                   ![r].srdCalls = @ + 1]
                   ELSE pc
    /\ UNCHANGED <<storeVars, run>>
    /\ UNCHANGED sessVars

\* await pc.setRemoteDescription(answerDescription) settles: applied on an
\* open connection without a remote description (the track event of the
\* joiner's tracks fires), rejected otherwise
SetRemoteAnswerDone(r) ==
    /\ pc[r].srdInFlight # <<>>
    /\ LET a == Head(pc[r].srdInFlight)
       IN IF pc[r].state = "open" /\ pc[r].remoteDesc = 0
          THEN /\ pc' = [pc EXCEPT ![r] = FireTrack([@ EXCEPT !.srdInFlight = Tail(@),
                                                              !.remoteDesc = a], a)]
               /\ pend' = TrackHandler(r, a)
          ELSE /\ pc' = [pc EXCEPT ![r].srdInFlight = Tail(@), ![r].srdRejected = @ + 1]
               /\ pend' = pend
    /\ UNCHANGED <<storeVars, run, lsn>>
    /\ UNCHANGED sessRest

\* the candidate log a run's candidatesListener watches: the other role's
PeerLog(r) ==
    IF run[r].callId \notin CallIds THEN {}
    ELSE IF run[r].kind = "create" THEN calleeCandidates[run[r].callId]
         ELSE callerCandidates[run[r].callId]

\* pc.addIceCandidate(c) for every c of S
AddIceCandidates(p, S) ==
    [p EXCEPT !.iceCount = [c \in Cands |-> IF c \in S THEN @[c] + 1 ELSE @[c]],
              !.iceEarly = IF p.remoteDesc = 0 THEN @ \cup S ELSE @,
              !.iceClosed = IF p.state = "closed" THEN @ \cup S ELSE @]

\* a variant of CandSnapshot that drops the candidates reported while the
\* connection has no remote description
CandSnapshotLate(r) ==
    /\ lsn[r].candSub
    /\ PeerLog(r) \ lsn[r].candSeen # {}
    /\ LET S == PeerLog(r) \ lsn[r].candSeen
       IN /\ lsn' = [lsn EXCEPT ![r].candSeen = @ \cup S]
          /\ pc' = IF pc[r].remoteDesc = 0 THEN pc
                   ELSE [pc EXCEPT ![r] = AddIceCandidates(@, S)]
    /\ UNCHANGED <<storeVars, run>>
    /\ UNCHANGED sessVars

\* candidatesListener: one snapshot; its docChanges() are the 'added'
\* documents S of the log that no earlier snapshot reported
CandSnapshot(r) ==
    /\ lsn[r].candSub
    /\ PeerLog(r) \ lsn[r].candSeen # {}
    /\ LET S == PeerLog(r) \ lsn[r].candSeen
       IN /\ lsn' = [lsn EXCEPT ![r].candSeen = @ \cup S]
          /\ pc' = [pc EXCEPT ![r] = AddIceCandidates(@, S)]
    /\ UNCHANGED <<storeVars, run>>
    /\ UNCHANGED sessVars

\* the transport discovers a local candidate and fires icecandidate; the
\* handler, when assigned, appends it to this role's log
DiscoverCandidate(r) ==
    /\ pc[r].state = "open" /\ pc[r].localDesc # "none"
    /\ pc[r].discovered < MaxCand
    /\ LET c == <<r, pc[r].discovered + 1>>
           id == run[r].callId
       IN IF pc[r].onicecandidate
          THEN /\ pc' = [pc EXCEPT ![r].discovered = @ + 1]
               /\ IF run[r].kind = "create"
                  THEN /\ callerCandidates' = [callerCandidates EXCEPT ![id] = @ \cup {c}]
                       /\ UNCHANGED calleeCandidates
                  ELSE /\ calleeCandidates' = [calleeCandidates EXCEPT ![id] = @ \cup {c}]
                       /\ UNCHANGED callerCandidates
          ELSE /\ pc' = [pc EXCEPT ![r].discovered = @ + 1, ![r].lost = @ \cup {c}]
               /\ UNCHANGED <<callerCandidates, calleeCandidates>>
    /\ UNCHANGED <<calls, nextCallId, run, lsn>>
    /\ UNCHANGED sessVars

\* ------------------------------------------------------------------------
\* The transport of an RTCPeerConnection
\* ------------------------------------------------------------------------
\* pc.connectionState / pc.iceConnectionState as a poll reads them
ConnectionState(r) == IF pc[r].state = "closed" THEN "closed" ELSE pc[r].conn

\* both descriptions are set and a path is found, or a lost path is found
\* again
TransportConnect(r) ==
    /\ pc[r].state = "open" /\ pc[r].localDesc # "none" /\ pc[r].remoteDesc # 0
    /\ pc[r].conn \in {"new", "disconnected"}
    /\ pc' = [pc EXCEPT ![r].conn = "connected"]
    /\ UNCHANGED <<storeVars, run, lsn>>
    /\ UNCHANGED sessVars

\* the path of a connected transport stops answering
TransportDisconnect(r) ==
    /\ pc[r].state = "open" /\ pc[r].conn = "connected"
    /\ pc' = [pc EXCEPT ![r].conn = "disconnected"]
    /\ UNCHANGED <<storeVars, run, lsn>>
    /\ UNCHANGED sessVars

\* the transport gives up
TransportFail(r) ==
    /\ pc[r].state = "open" /\ pc[r].conn \in {"connected", "disconnected"}
    /\ pc' = [pc EXCEPT ![r].conn = "failed"]
    /\ UNCHANGED <<storeVars, run, lsn>>
    /\ UNCHANGED sessVars

\* ------------------------------------------------------------------------
\* joinCall (utils/webrtc-helper.js)
\* ------------------------------------------------------------------------
\* the synchronous prefix: argument check, up to await getDoc(callDoc)
JoinCallEntry(r, id, stream, uid) ==
    /\ run' = [run EXCEPT ![r] =
                 IF id = 0 \/ stream = 0 \/ uid = 0
                 THEN [FreeRun EXCEPT !.kind = "join", !.at = "threw", !.err = "args",
                                      !.uid = uid, !.callId = id]
                 ELSE [FreeRun EXCEPT !.kind = "join", !.at = "getDoc", !.uid = uid,
                                      !.stream = stream, !.callId = id]]
    /\ pc' = pc

ReadDoc(id) == IF id \in CallIds THEN calls[id] ELSE NoDoc

\* a variant of JoinGetDoc that constructs the connection before it looks
\* at the document
JoinGetDocEager(r) ==
    /\ run[r].kind = "join" /\ run[r].at = "getDoc"
    /\ LET d == ReadDoc(run[r].callId)
       IN /\ run' = IF ~d.exists
                    THEN [run EXCEPT ![r].at = "threw", ![r].err = "notfound"]
                    ELSE [run EXCEPT ![r].at = "setRemoteOffer", ![r].data = d]
          /\ pc' = [pc EXCEPT ![r] = [NoPc EXCEPT !.state = "open"]]
    /\ UNCHANGED <<storeVars, lsn>>
    /\ UNCHANGED sessVars

\* await getDoc settles; 'Call not found' is thrown before any connection
\* exists, otherwise the connection is constructed and
\* setRemoteDescription(offer) is awaited
JoinGetDoc(r) ==
    /\ run[r].kind = "join" /\ run[r].at = "getDoc"
    /\ LET d == ReadDoc(run[r].callId)
       IN IF ~d.exists
          THEN /\ run' = [run EXCEPT ![r].at = "threw", ![r].err = "notfound"]
               /\ pc' = pc
          ELSE /\ run' = [run EXCEPT ![r].at = "setRemoteOffer", ![r].data = d]
               /\ pc' = [pc EXCEPT ![r] = [NoPc EXCEPT !.state = "open"]]
    /\ UNCHANGED <<storeVars, lsn>>
    /\ UNCHANGED sessVars

\* await pc.setRemoteDescription(offerDescription) settles; the track
\* event of the creator's tracks fires
JoinSetRemoteDone(r) ==
    /\ run[r].kind = "join" /\ run[r].at = "setRemoteOffer"
    /\ run' = [run EXCEPT ![r].at = "createAnswer"]
    /\ pc' = [pc EXCEPT ![r] = FireTrack([@ EXCEPT !.remoteDesc = run[r].data.offer],
                                         run[r].data.offer)]
    /\ pend' = TrackHandler(r, run[r].data.offer)
    /\ UNCHANGED <<storeVars, lsn>>
    /\ UNCHANGED sessRest

\* await pc.createAnswer() settles
JoinCreateAnswerDone(r) ==
    /\ run[r].kind = "join" /\ run[r].at = "createAnswer"
    /\ \E ok \in BOOLEAN :
          run' = [run EXCEPT ![r].at = IF ok THEN "setLocalAnswer" ELSE "threw",
                             ![r].err = IF ok THEN "none" ELSE "answer"]
    /\ UNCHANGED <<storeVars, pc, lsn>>
    /\ UNCHANGED sessVars

\* a variant of JoinSetLocalDone that assigns onicecandidate and registers
\* the candidates listener before the answer is written
JoinSetLocalDoneEager(r) ==
    /\ run[r].kind = "join" /\ run[r].at = "setLocalAnswer"
    /\ run' = [run EXCEPT ![r].at = "updateDoc"]
    /\ pc' = [pc EXCEPT ![r].localDesc = "answer", ![r].onicecandidate = TRUE]
    /\ lsn' = [lsn EXCEPT ![r].candSub = TRUE]
    /\ UNCHANGED storeVars
    /\ UNCHANGED sessVars

\* await pc.setLocalDescription(answer) settles
JoinSetLocalDone(r) ==
    /\ run[r].kind = "join" /\ run[r].at = "setLocalAnswer"
    /\ run' = [run EXCEPT ![r].at = "updateDoc"]
    /\ pc' = [pc EXCEPT ![r].localDesc = "answer"]
    /\ UNCHANGED <<storeVars, lsn>>
    /\ UNCHANGED sessVars

\* await updateDoc(callDoc, {answer, answeredBy}) settles: it rejects when
\* the store is unreachable or the document is gone, and otherwise writes
\* the two fields unconditionally; then onicecandidate is assigned, the
\* candidates listener is registered and the result is returned
JoinUpdateDoc(r) ==
    /\ run[r].kind = "join" /\ run[r].at = "updateDoc"
    /\ LET id == run[r].callId
       IN \/ /\ run' = [run EXCEPT ![r].at = "threw", ![r].err = "store"]
             /\ UNCHANGED <<storeVars, pc, lsn>>
          \/ /\ calls[id].exists
             /\ LET d == AnswerUpdate(calls[id], r, run[r].uid)
                IN /\ calls' = [calls EXCEPT ![id] = d]
                   /\ lsn' = [NotifyCall(lsn, id, d) EXCEPT ![r].candSub = TRUE]
             /\ run' = [run EXCEPT ![r].at = "done"]
             /\ pc' = [pc EXCEPT ![r].onicecandidate = TRUE]
             /\ UNCHANGED <<nextCallId, callerCandidates, calleeCandidates>>
    /\ UNCHANGED sessVars

\* ------------------------------------------------------------------------
\* Signaling specification: the helper's two entry points called directly
\* with a live local stream by signed-in users
\* ------------------------------------------------------------------------
InitStore ==
    /\ calls = [id \in CallIds |-> NoDoc]
    /\ nextCallId = 1
    /\ callerCandidates = [id \in CallIds |-> {}]
    /\ calleeCandidates = [id \in CallIds |-> {}]

InitHelper ==
    /\ run = [r \in Runs |-> FreeRun]
    /\ pc = [r \in Runs |-> NoPc]
    /\ lsn = [r \in Runs |-> NoLsn]

\* no component is mounted
InitNoSession ==
    /\ ui = InitUi
    /\ pend = NoPend
    /\ inv = [r \in Runs |-> NoInv]
    /\ timers = {}
    /\ alerts = {}
    /\ cln = <<>>
    /\ streams = [s \in Streams |-> NoStream]
    /\ media = "idle"
    /\ eff = [dep |-> FALSE, cap |-> InitUi]
    /\ embedded = FALSE
    /\ obs = NoObs

InitSig == InitStore /\ InitHelper /\ InitNoSession

\* a caller awaits createCall(localStream)
SigCreateCall ==
    /\ HasFree
    /\ \A r \in Runs : run[r].kind # "create"
    /\ CreateCallEntry(LowestFree, 1, LowestFree)
    /\ UNCHANGED <<storeVars, lsn>>
    /\ UNCHANGED sessVars

\* a caller awaits joinCall(callId, localStream)
SigJoinCall ==
    /\ HasFree
    /\ \E id \in JoinIds :
          JoinCallEntry(LowestFree, id, 1, LowestFree)
    /\ UNCHANGED <<storeVars, lsn>>
    /\ UNCHANGED sessVars

\* what the component's end of call does to the helper's objects: the peer
\* connection is closed and, when the caller created the call, the call
\* document is deleted; the helper's listeners stay registered
SigEnd(r) ==
    /\ run[r].at = "done" /\ pc[r].state = "open"
    /\ pc' = [pc EXCEPT ![r].state = "closed", ![r].closeCalls = @ + 1]
    /\ IF run[r].kind = "create"
       THEN /\ calls' = [calls EXCEPT ![run[r].callId] = NoDoc]
            /\ lsn' = NotifyCall(lsn, run[r].callId, NoDoc)
       ELSE UNCHANGED <<calls, lsn>>
    /\ UNCHANGED <<nextCallId, callerCandidates, calleeCandidates, run>>
    /\ UNCHANGED sessVars

HelperStep(r) ==
    \/ CreateOfferDone(r)
    \/ CreateSetLocalDone(r)
    \/ CreateAddDocFail(r)
    \/ CreateAddDoc(r)
    \/ JoinGetDoc(r)
    \/ JoinSetRemoteDone(r)
    \/ JoinCreateAnswerDone(r)
    \/ JoinSetLocalDone(r)
    \/ JoinUpdateDoc(r)
    \/ CallSnapshot(r)
    \/ SetRemoteAnswerDone(r)
    \/ CandSnapshot(r)
    \/ DiscoverCandidate(r)

NextSig ==
    \/ SigCreateCall
    \/ SigJoinCall
    \/ \E r \in Runs : SigEnd(r)
    \/ \E r \in Runs : HelperStep(r)

SpecSig == InitSig /\ [][NextSig]_vars

\* The two-peer exchange: one createCall and one joinCall on an id addDoc
\* hands out
CandJoinCall ==
    /\ HasFree
    /\ \A r \in Runs : run[r].kind # "join"
    /\ \E id \in CallIds :
          JoinCallEntry(LowestFree, id, 1, LowestFree)
    /\ UNCHANGED <<storeVars, lsn>>
    /\ UNCHANGED sessVars

NextCand ==
    \/ SigCreateCall
    \/ CandJoinCall
    \/ \E r \in Runs : SigEnd(r)
    \/ \E r \in Runs : HelperStep(r)

SpecCand == InitSig /\ [][NextCand]_vars

\* every snapshot the store has for a listener reaches its callback
FairCand ==
    /\ SpecCand
    /\ \A r \in Runs : WF_vars(CandSnapshot(r))

\* ------------------------------------------------------------------------
\* VideoCallScreen
\* ------------------------------------------------------------------------
\* the "Reset state" block of cleanup()
ScreenReset == [localStream |-> 0, remoteStream |-> 0, peerConnection |-> 0,
                callId |-> 0, isCallStarted |-> FALSE, callStatus |-> ""]

\* what follows `await cleanup()` in the caller: the end button sets the
\* status 'Call ended'
AfterCleanup(tail) == IF tail = "ended" THEN [callStatus |-> "ended"] ELSE [isCallStarted |-> FALSE]

\* getUserMedia of the mount effect is in flight, the back-handler effect
\* is registered with the closure of the first render
InitScreen ==
    /\ InitStore /\ InitHelper
    /\ ui = InitUi
    /\ pend = NoPend
    /\ inv = [r \in Runs |-> NoInv]
    /\ timers = {}
    /\ alerts = {}
    /\ cln = <<>>
    /\ streams = [s \in Streams |-> NoStream]
    /\ media = "pending"
    /\ eff = [dep |-> FALSE, cap |-> InitUi]
    /\ embedded = FALSE
    /\ obs = NoObs

\* the effect on [isCallStarted] has not run for the committed render
ScreenDirty == ui.isCallStarted # eff.dep

\* React renders the queued state; the pending passive effects of the
\* previous commit are flushed first
Render ==
    /\ pend.flds # {}
    /\ ~ScreenDirty
    /\ ui' = Rendered(ui, pend)
    /\ pend' = NoPend
    /\ UNCHANGED <<storeVars, helperVars, inv, timers, alerts, cln, streams, media, eff,
                   embedded, obs>>

\* a user gesture is handled on the committed render after its effects ran
CanPress == ~ScreenDirty /\ obs.presses < MaxPresses

NextStream == CHOOSE s \in Streams : streams[s].state = "none" /\ \A q \in Streams : streams[q].state = "none" => s <= q

\* setupLocalStream: await getUserMedia() settles
ScreenMediaDone ==
    /\ media = "pending"
    /\ media' = "idle"
    /\ \/ /\ \E s \in Streams : streams[s].state = "none"
          /\ streams' = [streams EXCEPT ![NextStream].state = "live"]
          /\ pend' = SetState(pend, [localStream |-> NextStream])
       \/ UNCHANGED <<streams, pend>>
    /\ UNCHANGED <<storeVars, helperVars, ui, inv, timers, alerts, cln, eff, embedded, obs>>

\* the set-state calls upd: those of a gesture's handler render at once,
\* the others are queued
Apply(sync, upd) ==
    IF sync
    THEN ui' = Rendered(ui, SetState(NoPend, upd)) /\ pend' = pend
    ELSE pend' = SetState(pend, upd) /\ ui' = ui

\* cleanup() of the render whose state is cap, up to its first suspension;
\* the steps share one try block, so a throwing track.stop() or close()
\* skips everything after it
ScreenCleanup(cap, tail, sync) ==
    LET hasS == cap.localStream # 0
        hasP == cap.peerConnection # 0
        del == cap.callId # 0 /\ cap.isCaller
        reset == [f \in DOMAIN ScreenReset \cup DOMAIN AfterCleanup(tail) |->
                    IF f \in DOMAIN AfterCleanup(tail) THEN AfterCleanup(tail)[f]
                    ELSE ScreenReset[f]]
        o == [obs EXCEPT !.hadPc = hasP, !.wantsDelete = del, !.stopThrew = FALSE,
                         !.closeTried = FALSE, !.closeThrew = FALSE,
                         !.deleteTried = FALSE, !.stateReset = FALSE,
                         !.presses = IF sync THEN @ + 1 ELSE @]
    IN \E stopOk \in (IF hasS THEN BOOLEAN ELSE {TRUE}) :
       \E closeOk \in (IF hasP THEN BOOLEAN ELSE {TRUE}) :
         IF ~stopOk
         THEN /\ obs' = [o EXCEPT !.stopThrew = TRUE]
              /\ UNCHANGED <<streams, pc, cln, ui, pend>>
         ELSE /\ streams' = IF hasS
                            THEN [streams EXCEPT ![cap.localStream].state = "stopped",
                                                 ![cap.localStream].stops = @ + 1]
                            ELSE streams
              /\ IF ~closeOk
                 THEN /\ pc' = [pc EXCEPT ![cap.peerConnection].closeCalls = @ + 1]
                      /\ obs' = [o EXCEPT !.closeTried = TRUE, !.closeThrew = TRUE]
                      /\ UNCHANGED <<cln, ui, pend>>
                 ELSE /\ pc' = IF hasP
                               THEN [pc EXCEPT ![cap.peerConnection].state = "closed",
                                               ![cap.peerConnection].closeCalls = @ + 1]
                               ELSE pc
                      /\ obs' = [o EXCEPT !.closeTried = hasP, !.deleteTried = del,
                                          !.stateReset = TRUE]
                      /\ IF del
                         THEN /\ cln' = Append(cln, [id |-> cap.callId, tail |-> tail])
                              /\ UNCHANGED <<ui, pend>>
                         ELSE /\ cln' = cln
                              /\ Apply(sync, reset)

\* cleanup() resumes: the dynamic imports and deleteDoc(doc(db,'calls',
\* callId)) settle (a rejection is caught and logged), then the state is
\* reset and the caller continues
ScreenCleanupDelete ==
    /\ cln # <<>>
    /\ LET c == Head(cln)
           reset == [f \in DOMAIN ScreenReset \cup DOMAIN AfterCleanup(c.tail) |->
                       IF f \in DOMAIN AfterCleanup(c.tail) THEN AfterCleanup(c.tail)[f]
                       ELSE ScreenReset[f]]
       IN /\ cln' = Tail(cln)
          /\ pend' = SetState(pend, reset)
          /\ \/ /\ c.id \in CallIds /\ calls[c.id].exists
                /\ calls' = [calls EXCEPT ![c.id] = NoDoc]
                /\ lsn' = NotifyCall(lsn, c.id, NoDoc)
                /\ obs' = [obs EXCEPT !.deletes[c.id] = @ + 1, !.removed = @ \cup {c.id}]
             \/ /\ obs' = [obs EXCEPT !.deletes[c.id] = @ + 1]
                /\ UNCHANGED <<calls, lsn>>
    /\ UNCHANGED <<nextCallId, callerCandidates, calleeCandidates, run, pc, ui, inv, timers,
                   alerts, streams, media, eff, embedded>>

\* the effect on [isCallStarted] re-runs: the clean-up function of the
\* previous registration calls the cleanup() of the render that registered
\* it, then the effect is registered with the committed render's closure
ScreenFlushEffects ==
    /\ ScreenDirty
    /\ ScreenCleanup(eff.cap, "none", FALSE)
    /\ eff' = [dep |-> ui.isCallStarted, cap |-> ui]
    /\ UNCHANGED <<storeVars, run, lsn, inv, timers, alerts, media, embedded>>

\* retries startCall / joinCall offer after a failure (retryCount < 2)
MaxRetries == 2

Timer(k, r) == [kind |-> k, run |-> r]
Alert(k, r, cap) == [kind |-> k, run |-> r, cap |-> cap]

\* the state after every queued set-state call
Latest == Rendered(ui, pend)

\* onChangeText={setCallId}
ScreenType(id) ==
    /\ CanPress
    /\ ~ui.isCallStarted /\ ~ui.isCaller
    /\ ui.callId # id
    /\ ui' = [ui EXCEPT !.callId = id]
    /\ obs' = [obs EXCEPT !.presses = @ + 1]
    /\ UNCHANGED <<storeVars, helperVars, pend, inv, timers, alerts, cln, streams, media,
                   eff, embedded>>

\* startCall(retryCount) of the render whose state is cap, up to
\* await createCall(localStream)
ScreenStartCall(cap, retry, sync) ==
    IF cap.localStream = 0
    THEN UNCHANGED <<ui, pend, run, pc, inv>>
    ELSE /\ MayAttempt
         /\ Apply(sync, [callStatus |-> "creating", isCaller |-> TRUE])
         /\ CreateCallEntry(LowestFree, cap.localStream, Me)
         /\ inv' = [inv EXCEPT ![LowestFree] =
                      [fn |-> "start", at |-> "await", retry |-> retry, cap |-> cap]]

\* "Start New Call": onPress={() => startCall(0)}
ScreenPressStart ==
    /\ CanPress
    /\ ~ui.isCallStarted /\ ~ui.isCaller
    /\ ScreenStartCall(ui, 0, TRUE)
    /\ obs' = [obs EXCEPT !.presses = @ + 1, !.asked = @ + 1, !.entered = @ + 1]
    /\ UNCHANGED <<storeVars, lsn, timers, alerts, cln, streams, media, eff, embedded>>

\* startCall resumes with createCall's result: state, the 1 s stream
\* poll and the 10 s timeout
ScreenStartResume(r) ==
    /\ inv[r].fn = "start" /\ inv[r].at = "await"
    /\ run[r].at = "done"
    /\ pend' = SetState(pend, [peerConnection |-> r, callId |-> run[r].callId,
                               isCallStarted |-> TRUE, callStatus |-> "created"])
    /\ timers' = timers \cup {Timer("poll", r), Timer("startTimeout", r)}
    /\ inv' = [inv EXCEPT ![r].at = "polling"]
    /\ UNCHANGED <<storeVars, helperVars, ui, alerts, cln, streams, media, eff, embedded, obs>>

\* startCall's catch: createCall rejected
ScreenStartCatch(r) ==
    /\ inv[r].fn = "start" /\ inv[r].at = "await"
    /\ run[r].at = "threw"
    /\ pend' = SetState(pend, [callStatus |-> "failed_start", isCaller |-> FALSE])
    /\ alerts' = IF inv[r].retry < MaxRetries
                 THEN alerts \cup {Alert("startRetry", r, inv[r].cap)}
                 ELSE alerts
    /\ inv' = [inv EXCEPT ![r].at = "failed"]
    /\ UNCHANGED <<storeVars, helperVars, ui, timers, cln, streams, media, eff, embedded,
                   obs>>

\* a dialog's Retry button: setTimeout(() => startCall / joinCall
\* (retryCount + 1), 1000)
ScreenPressRetry(a) ==
    /\ a \in alerts /\ a.kind \in {"startRetry", "joinRetry"}
    /\ obs.presses < MaxPresses
    /\ alerts' = alerts \ {a}
    /\ timers' = timers \cup {Timer(a.kind, a.run)}
    /\ obs' = [obs EXCEPT !.presses = @ + 1, !.asked = @ + 1]
    /\ UNCHANGED <<storeVars, helperVars, ui, pend, inv, cln, streams, media, eff,
                   embedded>>

\* the retry timer of a failed start fires
ScreenRetryStartTimer(t) ==
    /\ t \in timers /\ t.kind = "startRetry"
    /\ timers' = timers \ {t}
    /\ ScreenStartCall(inv[t.run].cap, inv[t.run].retry + 1, FALSE)
    /\ obs' = [obs EXCEPT !.entered = @ + 1]
    /\ UNCHANGED <<storeVars, lsn, alerts, cln, streams, media, eff, embedded>>

\* getRemoteStreamSafely(pc): the remote streams / receivers of a
\* connection whose remote description is set
RemoteStreamOf(r) == pc[r].remoteDesc

\* a tick of the stream poll that finds a remote stream (one that finds
\* none changes nothing); the status text it shows for 2 s is the
\* connected status
ScreenPoll(t) ==
    /\ t \in timers /\ t.kind = "poll"
    /\ RemoteStreamOf(t.run) # 0
    /\ pend' = SetState(pend, [remoteStream |-> RemoteStreamOf(t.run),
                               callStatus |-> "connected"])
    /\ timers' = timers \ {t}
    /\ UNCHANGED <<storeVars, helperVars, ui, inv, alerts, cln, streams, media, eff,
                   embedded, obs>>

\* the 10 s timeout of startCall: it stops the poll (and refreshes the
\* call history, which is not part of the session)
ScreenStartTimeout(t) ==
    /\ t \in timers /\ t.kind = "startTimeout"
    /\ timers' = timers \ {t, Timer("poll", t.run)}
    /\ obs' = [obs EXCEPT !.timedOut = @ \cup
                 {[fn |-> "start", run |-> t.run,
                   waiting |-> Latest.isCallStarted /\ Latest.remoteStream = 0
                               /\ RemoteStreamOf(t.run) = 0,
                   reported |-> FALSE, offered |-> FALSE, retry |-> inv[t.run].retry]}]
    /\ UNCHANGED <<storeVars, helperVars, ui, pend, inv, alerts, cln, streams, media, eff,
                   embedded>>

\* joinCall(retryCount) of the render whose state is cap, up to
\* await joinCallHelper(callId, localStream); without a stream or a call
\* id it only shows 'Please enter a valid call ID'
ScreenJoinCall(cap, retry, sync) ==
    IF cap.localStream = 0 \/ cap.callId = 0
    THEN UNCHANGED <<ui, pend, run, pc, inv>>
    ELSE /\ MayAttempt
         /\ Apply(sync, [isJoining |-> TRUE, callStatus |-> "joining"])
         /\ JoinCallEntry(LowestFree, cap.callId, cap.localStream, Me)
         /\ inv' = [inv EXCEPT ![LowestFree] =
                      [fn |-> "join", at |-> "await", retry |-> retry, cap |-> cap]]

\* "Join": onPress={() => joinCall()}, disabled={isJoining || !callId}
ScreenPressJoin ==
    /\ CanPress
    /\ ~ui.isCallStarted /\ ~ui.isCaller
    /\ ~ui.isJoining /\ ui.callId # 0
    /\ ScreenJoinCall(ui, 0, TRUE)
    /\ obs' = [obs EXCEPT !.presses = @ + 1, !.asked = @ + 1, !.entered = @ + 1]
    /\ UNCHANGED <<storeVars, lsn, timers, alerts, cln, streams, media, eff, embedded>>

\* joinCall resumes with joinCallHelper's result: state, the 1 s stream
\* poll and the 30 s timeout
ScreenJoinResume(r) ==
    /\ inv[r].fn = "join" /\ inv[r].at = "await"
    /\ run[r].at = "done"
    /\ pend' = SetState(pend, [peerConnection |-> r, isCallStarted |-> TRUE,
                               callStatus |-> "joining", isJoining |-> FALSE])
    /\ timers' = timers \cup {Timer("poll", r), Timer("joinTimeout", r)}
    /\ inv' = [inv EXCEPT ![r].at = "polling"]
    /\ UNCHANGED <<storeVars, helperVars, ui, alerts, cln, streams, media, eff, embedded, obs>>

\* joinCall's catch: joinCallHelper rejected
ScreenJoinCatch(r) ==
    /\ inv[r].fn = "join" /\ inv[r].at = "await"
    /\ run[r].at = "threw"
    /\ pend' = SetState(pend, [isJoining |-> FALSE, callStatus |-> "failed_join"])
    /\ alerts' = IF inv[r].retry < MaxRetries
                 THEN alerts \cup {Alert("joinRetry", r, inv[r].cap)}
                 ELSE alerts
    /\ inv' = [inv EXCEPT ![r].at = "failed"]
    /\ UNCHANGED <<storeVars, helperVars, ui, timers, cln, streams, media, eff, embedded,
                   obs>>

\* the retry timer of a failed join fires
ScreenRetryJoinTimer(t) ==
    /\ t \in timers /\ t.kind = "joinRetry"
    /\ timers' = timers \ {t}
    /\ ScreenJoinCall(inv[t.run].cap, inv[t.run].retry + 1, FALSE)
    /\ obs' = [obs EXCEPT !.entered = @ + 1]
    /\ UNCHANGED <<storeVars, lsn, alerts, cln, streams, media, eff, embedded>>

\* the 30 s timeout of joinCall: it stops the poll and tests remoteStream
\* and isCallStarted of the render that invoked joinCall
ScreenJoinTimeout(t) ==
    /\ t \in timers /\ t.kind = "joinTimeout"
    /\ timers' = timers \ {t, Timer("poll", t.run)}
    /\ LET cap == inv[t.run].cap
           report == cap.remoteStream = 0 /\ cap.isCallStarted
           offer == report /\ inv[t.run].retry < MaxRetries
       IN /\ pend' = IF report THEN SetState(pend, [callStatus |-> "timeout"]) ELSE pend
          /\ alerts' = IF report
                       THEN alerts \cup {Alert(IF offer THEN "connIssue" ELSE "connFailed",
                                               t.run, cap)}
                       ELSE alerts
          /\ obs' = [obs EXCEPT !.timedOut = @ \cup
                       {[fn |-> "join", run |-> t.run,
                         waiting |-> Latest.isCallStarted /\ Latest.remoteStream = 0,
                         reported |-> report, offered |-> offer,
                         retry |-> inv[t.run].retry]}]
    /\ UNCHANGED <<storeVars, helperVars, ui, inv, cln, streams, media, eff, embedded>>

\* the end button: endCall() shows the confirmation dialog
ScreenPressEnd ==
    /\ CanPress
    /\ ui.isCallStarted
    /\ alerts' = alerts \cup {Alert("endConfirm", 0, ui)}
    /\ obs' = [obs EXCEPT !.presses = @ + 1]
    /\ UNCHANGED <<storeVars, helperVars, ui, pend, inv, timers, cln, streams, media, eff,
                   embedded>>

\* the dialog's End Call button: await cleanup(); setCallStatus('Call ended')
ScreenConfirmEnd(a) ==
    /\ a \in alerts /\ a.kind = "endConfirm"
    /\ obs.presses < MaxPresses
    /\ alerts' = alerts \ {a}
    /\ ScreenCleanup(a.cap, "ended", TRUE)
    /\ UNCHANGED <<storeVars, run, lsn, inv, timers, media, eff, embedded>>

\* a dialog's Cancel button
ScreenDismiss(a) ==
    /\ a \in alerts /\ a.kind \in {"startRetry", "joinRetry", "endConfirm"}
    /\ obs.presses < MaxPresses
    /\ alerts' = alerts \ {a}
    /\ obs' = [obs EXCEPT !.presses = @ + 1]
    /\ UNCHANGED <<storeVars, helperVars, ui, pend, inv, timers, cln, streams, media, eff,
                   embedded>>

\* the steps of the helper's runs and its listeners' document callbacks
CreateStep(r) ==
    \/ CreateOfferDone(r)
    \/ CreateSetLocalDone(r)
    \/ CreateAddDocFail(r)
    \/ CreateAddDoc(r)
    \/ CallSnapshot(r)
    \/ SetRemoteAnswerDone(r)

JoinStep(r) ==
    \/ JoinGetDoc(r)
    \/ JoinSetRemoteDone(r)
    \/ JoinCreateAnswerDone(r)
    \/ JoinSetLocalDone(r)
    \/ JoinUpdateDoc(r)

\* The remote peer of the component, seen through the store: Peer is its
\* uid and the id of the SDP blobs of its connection.
\* it runs createCall up to addDoc
PeerCreateCall ==
    /\ nextCallId <= MaxCalls
    /\ calls' = [calls EXCEPT ![nextCallId] = OfferDoc(Peer, Peer)]
    /\ nextCallId' = nextCallId + 1
    /\ UNCHANGED <<callerCandidates, calleeCandidates, helperVars>>
    /\ UNCHANGED sessVars

\* it runs joinCall up to updateDoc on a call nobody has answered
PeerJoinCall ==
    /\ \E id \in CallIds :
          /\ calls[id].exists /\ calls[id].createdBy # Peer
          /\ calls[id].answer = 0
          /\ LET d == AnswerUpdate(calls[id], Peer, Peer)
             IN /\ calls' = [calls EXCEPT ![id] = d]
                /\ lsn' = NotifyCall(lsn, id, d)
    /\ UNCHANGED <<nextCallId, callerCandidates, calleeCandidates, run, pc>>
    /\ UNCHANGED sessVars

\* it ends the call it created: deleteDoc
PeerEndCall ==
    /\ \E id \in CallIds :
          /\ calls[id].exists /\ calls[id].createdBy = Peer
          /\ calls' = [calls EXCEPT ![id] = NoDoc]
          /\ lsn' = NotifyCall(lsn, id, NoDoc)
    /\ UNCHANGED <<nextCallId, callerCandidates, calleeCandidates, run, pc>>
    /\ UNCHANGED sessVars

NextScreen ==
    \/ Render
    \/ ScreenFlushEffects
    \/ ScreenCleanupDelete
    \/ ScreenMediaDone
    \/ \E id \in JoinIds : ScreenType(id)
    \/ ScreenPressStart
    \/ ScreenPressJoin
    \/ ScreenPressEnd
    \/ \E r \in Runs : ScreenStartResume(r)
    \/ \E r \in Runs : ScreenStartCatch(r)
    \/ \E r \in Runs : ScreenJoinResume(r)
    \/ \E r \in Runs : ScreenJoinCatch(r)
    \/ \E a \in alerts : ScreenPressRetry(a)
    \/ \E a \in alerts : ScreenConfirmEnd(a)
    \/ \E a \in alerts : ScreenDismiss(a)
    \/ \E t \in timers : ScreenRetryStartTimer(t)
    \/ \E t \in timers : ScreenRetryJoinTimer(t)
    \/ \E t \in timers : ScreenPoll(t)
    \/ \E t \in timers : ScreenStartTimeout(t)
    \/ \E t \in timers : ScreenJoinTimeout(t)
    \/ \E r \in Runs : CreateStep(r)
    \/ \E r \in Runs : JoinStep(r)
    \/ PeerCreateCall
    \/ PeerJoinCall
    \/ PeerEndCall

SpecScreen == InitScreen /\ [][NextScreen]_vars

\* the screen of a user who only enters call ids and joins
NextJoin ==
    \/ Render
    \/ ScreenFlushEffects
    \/ ScreenMediaDone
    \/ \E id \in JoinIds : ScreenType(id)
    \/ ScreenPressJoin
    \/ \E r \in Runs : ScreenJoinResume(r)
    \/ \E r \in Runs : ScreenJoinCatch(r)
    \/ \E a \in alerts : ScreenPressRetry(a)
    \/ \E a \in alerts : ScreenDismiss(a)
    \/ \E t \in timers : ScreenRetryJoinTimer(t)
    \/ \E t \in timers : ScreenPoll(t)
    \/ \E t \in timers : ScreenJoinTimeout(t)
    \/ \E r \in Runs : JoinStep(r)
    \/ PeerCreateCall
    \/ PeerEndCall

SpecJoin == InitScreen /\ [][NextJoin]_vars

\* The connection monitor: the effect on [peerConnection, isCallStarted]
\* polls the connection of the committed render every 2 s while both are
\* set.  A tick that reads disconnected, failed or closed sets the status
\* 'Connection lost', shows the 'Call Disconnected' dialog and clears the
\* interval
ScreenMonitorTick(r) ==
    /\ ~ScreenDirty
    /\ ui.isCallStarted /\ ui.peerConnection = r
    /\ \A x \in obs.lost : x.run # r
    /\ ConnectionState(r) \in {"disconnected", "failed", "closed"}
    /\ pend' = SetState(pend, [callStatus |-> "lost"])
    /\ alerts' = alerts \cup {Alert("disconnected", r, ui)}
    /\ obs' = [obs EXCEPT !.lost = @ \cup {[run |-> r, saw |-> ConnectionState(r)]}]
    /\ UNCHANGED <<storeVars, helperVars, ui, inv, timers, cln, streams, media, eff,
                   embedded>>

\* the dialog's OK button: onPress: cleanup
ScreenDisconnectOk(a) ==
    /\ a \in alerts /\ a.kind = "disconnected"
    /\ obs.presses < MaxPresses
    /\ alerts' = alerts \ {a}
    /\ ScreenCleanup(a.cap, "none", TRUE)
    /\ UNCHANGED <<storeVars, run, lsn, inv, timers, media, eff, embedded>>

\* the screen of a user who starts calls, with the transport of its
\* connections
NextMon ==
    \/ Render
    \/ ScreenFlushEffects
    \/ ScreenCleanupDelete
    \/ ScreenMediaDone
    \/ ScreenPressStart
    \/ \E r \in Runs : ScreenStartResume(r)
    \/ \E r \in Runs : ScreenStartCatch(r)
    \/ \E t \in timers : ScreenPoll(t)
    \/ \E t \in timers : ScreenStartTimeout(t)
    \/ \E r \in Runs : CreateStep(r)
    \/ PeerJoinCall
    \/ \E r \in Runs : TransportConnect(r)
    \/ \E r \in Runs : TransportDisconnect(r)
    \/ \E r \in Runs : TransportFail(r)
    \/ \E r \in Runs : ScreenMonitorTick(r)
    \/ \E a \in alerts : ScreenDisconnectOk(a)

SpecMon == InitScreen /\ [][NextMon]_vars

\* The quality monitor: every 5 s of a started call the callback of
\* getStats() derives a label from the report's inbound-rtp packetsLost
\* and candidate-pair currentRoundTripTime
MediumLoss == 2
PoorLoss == 5
MediumRtt == 150
PoorRtt == 300

Losses == 0..MaxLoss
\* round-trip times in ms, at and around the two thresholds
Rtts == {0, MediumRtt, MediumRtt + 1, PoorRtt, PoorRtt + 1}

\* hasData of a report with packetsLost = loss and currentRoundTripTime =
\* rtt / 1000: a field that is 0 fails its truthiness test
HasData(loss, rtt) == loss # 0 \/ rtt # 0

\* the label after that report when prev was shown; without data the
\* label is not set
QualityLabel(prev, loss, rtt) ==
    IF ~HasData(loss, rtt) THEN prev
    ELSE IF loss > PoorLoss \/ rtt > PoorRtt THEN "poor"
    ELSE IF loss > MediumLoss \/ rtt > MediumRtt THEN "medium"
    ELSE "good"

\* one tick of the quality interval whose getStats() resolved
QualityCheck(loss, rtt) ==
    LET prev == Latest.callQuality
        label == QualityLabel(prev, loss, rtt)
        rec == [prev |-> prev, loss |-> loss, rtt |-> rtt, label |-> label]
    IN /\ pend' = IF HasData(loss, rtt) THEN SetState(pend, [callQuality |-> label])
                  ELSE pend
       /\ obs' = [obs EXCEPT !.samples = IF @ = <<>> THEN <<rec>> ELSE <<@[Len(@)], rec>>]
       /\ UNCHANGED <<storeVars, helperVars, ui, inv, timers, alerts, cln, streams, media,
                      eff, embedded>>

\* the monitor fed with stats reports
NextQuality ==
    \/ Render
    \/ \E loss \in Losses : \E rtt \in Rtts : QualityCheck(loss, rtt)

SpecQuality == InitScreen /\ [][NextQuality]_vars

\* a tick of the quality interval, registered by the effect on
\* [peerConnection, isCallStarted] while both are set: pc.getStats() is
\* requested
ScreenQualityTick(r) ==
    /\ ~ScreenDirty
    /\ ui.isCallStarted /\ ui.peerConnection = r
    /\ Timer("stats", r) \notin timers
    /\ timers' = timers \cup {Timer("stats", r)}
    /\ UNCHANGED <<storeVars, helperVars, ui, pend, inv, alerts, cln, streams, media, eff,
                   embedded, obs>>

\* the getStats() promise resolves and its then-callback runs; over tells
\* whether the effect's clean-up had cleared the interval by then
ScreenQualityStats(t, loss, rtt) ==
    /\ t \in timers /\ t.kind = "stats"
    /\ timers' = timers \ {t}
    /\ LET label == QualityLabel(Latest.callQuality, loss, rtt)
       IN /\ pend' = IF HasData(loss, rtt) THEN SetState(pend, [callQuality |-> label])
                     ELSE pend
          /\ obs' = [obs EXCEPT !.stats = @ \cup
                       {[run |-> t.run, over |-> ~ui.isCallStarted /\ ~ScreenDirty,
                         changed |-> label # Latest.callQuality]}]
    /\ UNCHANGED <<storeVars, helperVars, ui, inv, alerts, cln, streams, media, eff,
                   embedded>>

\* the screen of a user who starts and ends calls, with its quality
\* monitor
NextQMon ==
    \/ Render
    \/ ScreenFlushEffects
    \/ ScreenCleanupDelete
    \/ ScreenMediaDone
    \/ ScreenPressStart
    \/ ScreenPressEnd
    \/ \E r \in Runs : ScreenStartResume(r)
    \/ \E r \in Runs : ScreenStartCatch(r)
    \/ \E a \in alerts : ScreenConfirmEnd(a)
    \/ \E r \in Runs : CreateStep(r)
    \/ PeerJoinCall
    \/ \E r \in Runs : ScreenQualityTick(r)
    \/ \E t \in timers : \E loss \in Losses : \E rtt \in Rtts : ScreenQualityStats(t, loss, rtt)

SpecQMon == InitScreen /\ [][NextQMon]_vars

\* ------------------------------------------------------------------------
\* VideoCallImplementation
\* ------------------------------------------------------------------------
\* automatic retries of the media setup (retryCount < 3)
MaxMediaRetries == 3

\* the dependencies of the setup effect and of the retry effect
ImplDeps(u) == <<u.retryCount, u.webRTCError>>

\* the component rendered without props (embedded = false); the setup
\* effect has run setupLocalStream() for the first render
InitImpl ==
    /\ InitStore /\ InitHelper
    /\ ui = InitUi
    /\ pend = NoPend
    /\ inv = [r \in Runs |-> NoInv]
    /\ timers = {}
    /\ alerts = {}
    /\ cln = <<>>
    /\ streams = [s \in Streams |-> NoStream]
    /\ media = "pending"
    /\ eff = [dep |-> ImplDeps(InitUi), cap |-> InitUi, tries |-> 0,
             mounted |-> TRUE]
    /\ embedded = FALSE
    /\ obs = NoObs

ImplDirty == ImplDeps(ui) # eff.dep

ImplRender ==
    /\ eff.mounted
    /\ pend.flds # {}
    /\ ~ImplDirty
    /\ ui' = Rendered(ui, pend)
    /\ pend' = NoPend
    /\ UNCHANGED <<storeVars, helperVars, inv, timers, alerts, cln, streams, media, eff,
                   embedded, obs>>

ImplCanPress == eff.mounted /\ ~ImplDirty /\ obs.presses < MaxPresses

\* setupLocalStream: await getUserMedia() settles
ImplMediaDone ==
    /\ media = "pending"
    /\ media' = "idle"
    /\ \/ /\ \E s \in Streams : streams[s].state = "none"
          /\ streams' = [streams EXCEPT ![NextStream].state = "live"]
          /\ pend' = SetState(pend, [localStream |-> NextStream, webRTCError |-> FALSE])
       \/ /\ pend' = SetState(pend, [webRTCError |-> TRUE])
          /\ UNCHANGED streams
    /\ UNCHANGED <<storeVars, helperVars, ui, inv, timers, alerts, cln, eff, embedded, obs>>

\* the "Reset state" block of cleanup() and what follows `await cleanup()`
ImplReset(tail) ==
    IF embedded
    THEN [remoteStream |-> 0, peerConnection |-> 0, callId |-> 0, isCallStarted |-> FALSE,
          callStatus |-> IF tail = "ended" THEN "ended" ELSE ""]
    ELSE [remoteStream |-> 0, peerConnection |-> 0, callId |-> 0, isCallStarted |-> FALSE,
          localStream |-> 0, callStatus |-> "ended"]

\* cleanup() of the render whose state is cap, up to its first suspension:
\* every step has its own try block, so a throwing track.stop() or
\* close() is logged and changes nothing of what follows
ImplCleanup(cap, tail, sync) ==
    LET hasS == cap.localStream # 0
        hasP == cap.peerConnection # 0
        del == cap.callId # 0 /\ cap.isCaller
    IN /\ streams' = IF hasS
                     THEN [streams EXCEPT ![cap.localStream].stops = @ + 1,
                                          ![cap.localStream].state = "stopped"]
                     ELSE streams
       /\ pc' = IF hasP
                THEN [pc EXCEPT ![cap.peerConnection].closeCalls = @ + 1,
                                ![cap.peerConnection].state = "closed"]
                ELSE pc
       /\ obs' = [obs EXCEPT !.hadPc = hasP, !.wantsDelete = del,
                             !.stopThrew = FALSE, !.closeTried = hasP,
                             !.closeThrew = FALSE, !.deleteTried = del,
                             !.stateReset = TRUE,
                             !.presses = IF sync THEN @ + 1 ELSE @]
       /\ IF del
          THEN /\ cln' = Append(cln, [id |-> cap.callId, tail |-> tail])
               /\ UNCHANGED <<ui, pend>>
          ELSE /\ cln' = cln
               /\ Apply(sync, ImplReset(tail))

\* cleanup() resumes after deleteDoc
ImplCleanupDelete ==
    /\ cln # <<>>
    /\ LET c == Head(cln)
       IN /\ cln' = Tail(cln)
          /\ pend' = SetState(pend, ImplReset(c.tail))
          /\ \/ /\ c.id \in CallIds /\ calls[c.id].exists
                /\ calls' = [calls EXCEPT ![c.id] = NoDoc]
                /\ lsn' = NotifyCall(lsn, c.id, NoDoc)
                /\ obs' = [obs EXCEPT !.deletes[c.id] = @ + 1, !.removed = @ \cup {c.id}]
             \/ /\ obs' = [obs EXCEPT !.deletes[c.id] = @ + 1]
                /\ UNCHANGED <<calls, lsn>>
    /\ UNCHANGED <<nextCallId, callerCandidates, calleeCandidates, run, pc, ui, inv, timers,
                   alerts, streams, media, eff, embedded>>

\* setupLocalStream() calls the setup effect made on its own since the
\* component mounted or the counter was last reset to 0
TriesAfter(u, e) ==
    IF u.retryCount >= MaxMediaRetries THEN e.tries
    ELSE IF u.retryCount = 0 THEN 0 ELSE e.tries + 1

\* the effects as they would be if the retry effect set its timer
\* whenever an error stands
ImplFlushEffectsUnbounded ==
    /\ eff.mounted
    /\ ImplDirty
    /\ IF ui.retryCount # eff.dep[1]
       THEN /\ ImplCleanup(eff.cap, "none", FALSE)
            /\ media' = IF ui.retryCount < MaxMediaRetries THEN "pending" ELSE media
            /\ eff' = [dep |-> ImplDeps(ui), cap |-> ui, tries |-> TriesAfter(ui, eff),
                          mounted |-> eff.mounted]
       ELSE /\ eff' = [eff EXCEPT !.dep = ImplDeps(ui)]
            /\ UNCHANGED <<ui, pend, pc, cln, streams, media, obs>>
    /\ timers' = IF ui.webRTCError
                 THEN timers \cup {Timer("mediaRetry", 0)}
                 ELSE timers \ {Timer("mediaRetry", 0)}
    /\ UNCHANGED <<storeVars, run, lsn, inv, alerts, embedded>>

\* the effects of a commit whose retryCount or webRTCError changed: the
\* setup effect, when retryCount changed, runs the cleanup() of the render
\* that registered it and setupLocalStream() again; the retry effect
\* clears its timer and sets a new one while the error stands
ImplFlushEffects ==
    /\ eff.mounted
    /\ ImplDirty
    /\ IF ui.retryCount # eff.dep[1]
       THEN /\ ImplCleanup(eff.cap, "none", FALSE)
            /\ media' = IF ui.retryCount < MaxMediaRetries THEN "pending" ELSE media
            /\ eff' = [dep |-> ImplDeps(ui), cap |-> ui, tries |-> TriesAfter(ui, eff),
                          mounted |-> eff.mounted]
       ELSE /\ eff' = [eff EXCEPT !.dep = ImplDeps(ui)]
            /\ UNCHANGED <<ui, pend, pc, cln, streams, media, obs>>
    /\ timers' = IF ui.webRTCError /\ ui.retryCount < MaxMediaRetries
                 THEN timers \cup {Timer("mediaRetry", 0)}
                 ELSE timers \ {Timer("mediaRetry", 0)}
    /\ UNCHANGED <<storeVars, run, lsn, inv, alerts, embedded>>

\* the 2 s retry timer: setRetryCount(prev => prev + 1)
ImplRetryTimer ==
    /\ Timer("mediaRetry", 0) \in timers
    /\ timers' = timers \ {Timer("mediaRetry", 0)}
    /\ pend' = SetState(pend, [retryCount |-> Latest.retryCount + 1])
    /\ UNCHANGED <<storeVars, helperVars, ui, inv, alerts, cln, streams, media, eff,
                   embedded, obs>>

\* the Retry button of the embedded view, shown while an error stands:
\* setWebRTCError(null); setRetryCount(0), rendered with what was queued
ImplPressRetry ==
    /\ ImplCanPress
    /\ embedded
    /\ ~ui.isCallStarted /\ ui.webRTCError
    /\ ui' = Rendered(Latest, SetState(NoPend, [webRTCError |-> FALSE, retryCount |-> 0]))
    /\ pend' = NoPend
    /\ obs' = [obs EXCEPT !.presses = @ + 1]
    /\ UNCHANGED <<storeVars, helperVars, inv, timers, alerts, cln, streams, media, eff,
                   embedded>>

\* onChangeText={setCallId} of the full UI
ImplType(id) ==
    /\ ImplCanPress
    /\ ~embedded
    /\ ~ui.isCallStarted /\ ~ui.isCaller
    /\ ui.callId # id
    /\ ui' = [ui EXCEPT !.callId = id]
    /\ obs' = [obs EXCEPT !.presses = @ + 1]
    /\ UNCHANGED <<storeVars, helperVars, pend, inv, timers, alerts, cln, streams, media,
                   eff, embedded>>

\* the start button: setIsCaller(true); startCall() up to
\* await createCall(localStream)
ImplPressStart ==
    /\ ImplCanPress
    /\ ~ui.isCallStarted
    /\ IF embedded THEN ~ui.webRTCError ELSE ~ui.isCaller
    /\ IF ui.localStream = 0
       THEN /\ Apply(TRUE, [isCaller |-> TRUE, callStatus |-> "no_camera"])
            /\ UNCHANGED <<run, pc, inv>>
       ELSE /\ MayAttempt
            /\ Apply(TRUE, [isCaller |-> TRUE, callStatus |-> "creating"])
            /\ CreateCallEntry(LowestFree, ui.localStream, Me)
            /\ inv' = [inv EXCEPT ![LowestFree] =
                         [fn |-> "start", at |-> "await", retry |-> 0, cap |-> ui]]
    /\ obs' = [obs EXCEPT !.presses = @ + 1]
    /\ UNCHANGED <<storeVars, lsn, timers, alerts, cln, streams, media, eff, embedded>>

\* startCall resumes with createCall's result: state, then pc.ontrack
ImplStartResume(r) ==
    /\ inv[r].fn = "start" /\ inv[r].at = "await"
    /\ run[r].at = "done"
    /\ pend' = SetState(pend, [callId |-> run[r].callId, peerConnection |-> r,
                               callStatus |-> "created", isCallStarted |-> TRUE])
    /\ pc' = [pc EXCEPT ![r].ontrack = TRUE]
    /\ inv' = [inv EXCEPT ![r].at = "started"]
    /\ UNCHANGED <<storeVars, run, lsn, ui, timers, alerts, cln, streams, media, eff,
                   embedded, obs>>

\* startCall's catch: the error status, then await cleanup()
ImplStartCatch(r) ==
    /\ inv[r].fn = "start" /\ inv[r].at = "await"
    /\ run[r].at = "threw"
    /\ inv' = [inv EXCEPT ![r].at = "failed"]
    /\ ImplCleanup(inv[r].cap, "none", FALSE)
    /\ UNCHANGED <<storeVars, run, lsn, timers, alerts, media, eff, embedded>>

\* "Join" of the full UI: joinCall() up to await joinCallHelper(callId,
\* localStream)
ImplPressJoin ==
    /\ ImplCanPress
    /\ ~embedded
    /\ ~ui.isCallStarted /\ ~ui.isCaller
    /\ ~ui.isJoining /\ ui.callId # 0
    /\ IF ui.localStream = 0
       THEN /\ Apply(TRUE, [callStatus |-> "no_camera"])
            /\ UNCHANGED <<run, pc, inv>>
       ELSE /\ MayAttempt
            /\ Apply(TRUE, [isJoining |-> TRUE, callStatus |-> "joining"])
            /\ JoinCallEntry(LowestFree, ui.callId, ui.localStream, Me)
            /\ inv' = [inv EXCEPT ![LowestFree] =
                         [fn |-> "join", at |-> "await", retry |-> 0, cap |-> ui]]
    /\ obs' = [obs EXCEPT !.presses = @ + 1]
    /\ UNCHANGED <<storeVars, lsn, timers, alerts, cln, streams, media, eff, embedded>>

\* joinCall resumes with joinCallHelper's result: state, then pc.ontrack,
\* the connected status, and the finally block
ImplJoinResume(r) ==
    /\ inv[r].fn = "join" /\ inv[r].at = "await"
    /\ run[r].at = "done"
    /\ pend' = SetState(pend, [peerConnection |-> r, callStatus |-> "connected",
                               isCallStarted |-> TRUE, isCaller |-> FALSE,
                               isJoining |-> FALSE])
    /\ pc' = [pc EXCEPT ![r].ontrack = TRUE]
    /\ inv' = [inv EXCEPT ![r].at = "started"]
    /\ UNCHANGED <<storeVars, run, lsn, ui, timers, alerts, cln, streams, media, eff,
                   embedded, obs>>

\* joinCall's catch and finally: joinCallHelper rejected
ImplJoinCatch(r) ==
    /\ inv[r].fn = "join" /\ inv[r].at = "await"
    /\ run[r].at = "threw"
    /\ pend' = SetState(pend, [callStatus |-> "failed_join", isJoining |-> FALSE])
    /\ inv' = [inv EXCEPT ![r].at = "failed"]
    /\ UNCHANGED <<storeVars, helperVars, ui, timers, alerts, cln, streams, media, eff,
                   embedded, obs>>

\* the end button: embedded, await cleanup() at once; otherwise the
\* confirmation dialog
ImplPressEnd ==
    /\ ImplCanPress
    /\ ui.isCallStarted
    /\ IF embedded
       THEN /\ ImplCleanup(ui, "ended", TRUE)
            /\ UNCHANGED alerts
       ELSE /\ alerts' = alerts \cup {Alert("endConfirm", 0, ui)}
            /\ obs' = [obs EXCEPT !.presses = @ + 1]
            /\ UNCHANGED <<ui, pend, pc, cln, streams>>
    /\ UNCHANGED <<storeVars, run, lsn, inv, timers, media, eff, embedded>>

\* the dialog's End Call button: await cleanup(); setCallStatus('Call ended')
ImplConfirmEnd(a) ==
    /\ a \in alerts /\ a.kind = "endConfirm"
    /\ obs.presses < MaxPresses
    /\ alerts' = alerts \ {a}
    /\ ImplCleanup(a.cap, "ended", TRUE)
    /\ UNCHANGED <<storeVars, run, lsn, inv, timers, media, eff, embedded>>

\* the dialog's Cancel button
ImplDismiss(a) ==
    /\ a \in alerts /\ a.kind = "endConfirm"
    /\ obs.presses < MaxPresses
    /\ alerts' = alerts \ {a}
    /\ obs' = [obs EXCEPT !.presses = @ + 1]
    /\ UNCHANGED <<storeVars, helperVars, ui, pend, inv, timers, cln, streams, media, eff,
                   embedded>>

NextImpl ==
    \/ ImplRender
    \/ ImplFlushEffects
    \/ ImplCleanupDelete
    \/ ImplMediaDone
    \/ ImplRetryTimer
    \/ \E id \in JoinIds : ImplType(id)
    \/ ImplPressStart
    \/ ImplPressJoin
    \/ ImplPressEnd
    \/ \E r \in Runs : ImplStartResume(r)
    \/ \E r \in Runs : ImplStartCatch(r)
    \/ \E r \in Runs : ImplJoinResume(r)
    \/ \E r \in Runs : ImplJoinCatch(r)
    \/ \E a \in alerts : ImplConfirmEnd(a)
    \/ \E a \in alerts : ImplDismiss(a)
    \/ \E r \in Runs : CreateStep(r)
    \/ \E r \in Runs : JoinStep(r)
    \/ PeerCreateCall
    \/ PeerJoinCall
    \/ PeerEndCall

SpecImpl == InitImpl /\ [][NextImpl]_vars

\* the component of a user who starts calls, with the transport of its
\* connections
NextImplConn ==
    \/ ImplRender
    \/ ImplFlushEffects
    \/ ImplCleanupDelete
    \/ ImplMediaDone
    \/ ImplRetryTimer
    \/ ImplPressStart
    \/ ImplPressEnd
    \/ \E r \in Runs : ImplStartResume(r)
    \/ \E r \in Runs : ImplStartCatch(r)
    \/ \E a \in alerts : ImplConfirmEnd(a)
    \/ \E a \in alerts : ImplDismiss(a)
    \/ \E r \in Runs : CreateStep(r)
    \/ PeerJoinCall
    \/ \E r \in Runs : TransportConnect(r)
    \/ \E r \in Runs : TransportDisconnect(r)
    \/ \E r \in Runs : TransportFail(r)

\* a call of the component is set up and its connection is not closed
CallLive == \E r \in Runs : inv[r].at \in {"started", "polling"} /\ pc[r].state = "open"

\* toggleAudio(stream) / toggleVideo(stream) / switchCamera(stream) of the
\* helper: the enabled flag of the first audio or video track is inverted,
\* the video track switches its camera
ToggleTrack(st, op) ==
    IF op = "mute" THEN [st EXCEPT !.audio = ~@]
    ELSE IF op = "camera" THEN [st EXCEPT !.video = ~@]
    ELSE [st EXCEPT !.back = ~@]

\* the mute, camera and switch buttons of the call controls, rendered
\* while isCallStarted: toggleMute / toggleCamera / switchCamera act on
\* localStream when there is one
ImplToggle(op) ==
    /\ ImplCanPress
    /\ ui.isCallStarted
    /\ IF ui.localStream = 0
       THEN UNCHANGED <<streams, ui>>
       ELSE /\ streams' = [streams EXCEPT ![ui.localStream] = ToggleTrack(@, op)]
            /\ ui' = IF op = "mute" THEN [ui EXCEPT !.isMuted = ~@]
                     ELSE IF op = "camera" THEN [ui EXCEPT !.isVideoEnabled = ~@]
                     ELSE ui
    /\ obs' = [obs EXCEPT !.presses = @ + 1,
                          !.toggles = @ \cup {[op |-> op, live |-> CallLive,
                                               changed |-> ui.localStream # 0 /\ op # "switch"]}]
    /\ UNCHANGED <<storeVars, helperVars, pend, inv, timers, alerts, cln, media, eff,
                   embedded>>

\* the component embedded in a chat screen (embedded = true)
InitEmbedded ==
    /\ InitStore /\ InitHelper
    /\ ui = InitUi
    /\ pend = NoPend
    /\ inv = [r \in Runs |-> NoInv]
    /\ timers = {}
    /\ alerts = {}
    /\ cln = <<>>
    /\ streams = [s \in Streams |-> NoStream]
    /\ media = "pending"
    /\ eff = [dep |-> ImplDeps(InitUi), cap |-> InitUi, tries |-> 0,
             mounted |-> TRUE]
    /\ embedded = TRUE
    /\ obs = NoObs

\* the embedded component of a user who starts a call, uses the call
\* controls and ends the call
NextToggle ==
    \/ ImplRender
    \/ ImplFlushEffects
    \/ ImplCleanupDelete
    \/ ImplMediaDone
    \/ ImplRetryTimer
    \/ ImplPressStart
    \/ ImplPressEnd
    \/ \E op \in {"mute", "camera", "switch"} : ImplToggle(op)
    \/ \E r \in Runs : ImplStartResume(r)
    \/ \E r \in Runs : ImplStartCatch(r)
    \/ \E r \in Runs : CreateStep(r)
    \/ PeerJoinCall

SpecToggle == InitEmbedded /\ [][NextToggle]_vars

\* the component in either mode while only its media setup runs
InitMedia ==
    /\ InitStore /\ InitHelper
    /\ ui = InitUi
    /\ pend = NoPend
    /\ inv = [r \in Runs |-> NoInv]
    /\ timers = {}
    /\ alerts = {}
    /\ cln = <<>>
    /\ streams = [s \in Streams |-> NoStream]
    /\ media = "pending"
    /\ eff = [dep |-> ImplDeps(InitUi), cap |-> InitUi, tries |-> 0,
             mounted |-> TRUE]
    /\ embedded \in BOOLEAN
    /\ obs = NoObs

\* the media setup, its automatic retries and the Retry button
NextMedia ==
    \/ ImplRender
    \/ ImplFlushEffects
    \/ ImplMediaDone
    \/ ImplRetryTimer
    \/ ImplPressRetry

SpecMedia == InitMedia /\ [][NextMedia]_vars

\* the component is removed from the tree: the clean-up of the setup
\* effect calls the cleanup() of the render that registered the effect,
\* the clean-up of the retry effect clears its timer
ImplUnmount ==
    /\ eff.mounted
    /\ ~ImplDirty
    /\ ImplCleanup(eff.cap, "none", FALSE)
    /\ eff' = [eff EXCEPT !.mounted = FALSE]
    /\ timers' = timers \ {Timer("mediaRetry", 0)}
    /\ UNCHANGED <<storeVars, run, lsn, inv, alerts, media, embedded>>

\* the component in either mode from its mount to its unmount; promises
\* settle and dialogs stay after the unmount, nothing is rendered then
NextUnmount ==
    \/ ImplRender
    \/ ImplFlushEffects
    \/ ImplCleanupDelete
    \/ ImplMediaDone
    \/ ImplRetryTimer
    \/ ImplPressStart
    \/ ImplPressEnd
    \/ ImplUnmount
    \/ \E r \in Runs : ImplStartResume(r)
    \/ \E r \in Runs : ImplStartCatch(r)
    \/ \E a \in alerts : ImplConfirmEnd(a)
    \/ \E a \in alerts : ImplDismiss(a)
    \/ \E r \in Runs : CreateStep(r)
    \/ PeerJoinCall

SpecUnmount == InitMedia /\ [][NextUnmount]_vars

SpecImplConn == InitImpl /\ [][NextImplConn]_vars

\* React renders and flushes what is queued, promises settle and snapshot
\* callbacks run; the user and the network are free
FairImplConn ==
    /\ SpecImplConn
    /\ WF_vars(ImplRender)
    /\ WF_vars(ImplFlushEffects)
    /\ WF_vars(ImplCleanupDelete)
    /\ WF_vars(ImplRetryTimer)
    /\ \A r \in Runs : WF_vars(ImplStartResume(r) \/ ImplStartCatch(r) \/ CreateStep(r))

\* ------------------------------------------------------------------------
\* C1  At-most-one-answer
\* ------------------------------------------------------------------------
\* the joinCall runs on call id whose updateDoc resolved
AnswerWriters(id) ==
    {r \in Runs : run[r].kind = "join" /\ run[r].callId = id /\ run[r].at = "done"}

\* C1: of two joiners of one call that both read the record before either
\* wrote its answer, at most one answer write succeeds, and the stored
\* answer and answeredBy stay those of the first successful writer
C1_AtMostOneAnswer ==
    \A id \in CallIds : \A r1, r2 \in Runs :
        (/\ r1 # r2
         /\ run[r1].kind = "join" /\ run[r2].kind = "join"
         /\ run[r1].callId = id /\ run[r2].callId = id
         /\ run[r1].data.exists /\ run[r1].data.answer = 0
         /\ run[r2].data.exists /\ run[r2].data.answer = 0)
        => ~(r1 \in AnswerWriters(id) /\ r2 \in AnswerWriters(id))

\* ------------------------------------------------------------------------
\* C2  Out-of-order candidate safety
\* ------------------------------------------------------------------------
\* C2: addIceCandidate is never invoked on a connection whose remote
\* description is still unset, and no delivered candidate is rejected
C2_NoCandidateBeforeRemoteDescription ==
    \A r \in Runs : pc[r].iceEarly = {}

CreatedByMe(id) ==
    \E r \in Runs : run[r].kind = "create" /\ run[r].uid = Me /\ run[r].callId = id

\* C4: a call document is removed by the component's cleanup only when
\* the component's own createCall created it; a document the session
\* entered through join is still in the store after its cleanup.
C4_CleanupOwnership == \A id \in obs.removed : CreatedByMe(id)

\* ------------------------------------------------------------------------
\* C5  Idempotent teardown
\* ------------------------------------------------------------------------
\* C5: repeated cleanup releases nothing twice: no local stream has its
\* tracks stopped a second time, no peer connection is closed a second
\* time, no call document is deleted a second time.
C5_IdempotentTeardown ==
    /\ \A s \in Streams : streams[s].stops <= 1
    /\ \A r \in Runs : pc[r].closeCalls <= 1
    /\ \A id \in JoinIds : obs.deletes[id] <= 1

\* ------------------------------------------------------------------------
\* C6  Happy path
\* ------------------------------------------------------------------------
\* C6: no track event of a connection of the component fires without a
\* handler: the remote stream of a description that was set is recorded.
C6_NoTrackEventMissed ==
    \A r \in Runs : run[r].uid = Me => ~pc[r].trackMissed

\* ------------------------------------------------------------------------
\* C7  Stale channel
\* ------------------------------------------------------------------------
\* the joins of the component that found no call document
StaleJoins == {r \in Runs : run[r].uid = Me /\ run[r].err = "notfound"}
\* no join of the component got past reading the document
OnlyStaleJoins ==
    \A r \in Runs : run[r].uid = Me => (run[r].at = "getDoc" \/ run[r].err = "notfound")

\* C7: a join whose call id has no document fails with 'Call not found'
\* before a peer connection or a listener exists; an answer of this user
\* is in the store only after a join of theirs completed; while no join
\* got past reading the document the session is not started and has no
\* connection; and every joinCall invocation, made or scheduled, answers
\* a gesture of the user.
C7_StaleChannel ==
    /\ \A r \in StaleJoins : run[r].at = "threw" /\ pc[r] = NoPc /\ lsn[r] = NoLsn
    /\ \A id \in CallIds :
          calls[id].answeredBy = Me =>
              \E r \in Runs : run[r].uid = Me /\ run[r].callId = id /\ run[r].at = "done"
    /\ OnlyStaleJoins =>
          /\ ~ui.isCallStarted /\ ~Latest.isCallStarted
          /\ ui.peerConnection = 0 /\ Latest.peerConnection = 0
    /\ obs.entered + Cardinality({t \in timers : t.kind = "joinRetry"}) <= obs.asked

\* a join the user retried found no document again
C7_Witness ==
    \E r \in StaleJoins : inv[r].at = "failed" /\ inv[r].retry = 1

\* ------------------------------------------------------------------------
\* C8  Abandoned call
\* ------------------------------------------------------------------------
\* C8: when the initiator's timeout fires on a started call that no
\* joiner has answered, the session surfaces a connection timeout.
C8_AbandonedCallTimesOut ==
    \A t \in obs.timedOut : (t.fn = "start" /\ t.waiting) => t.reported

\* ------------------------------------------------------------------------
\* C9  Joiner media timeout
\* ------------------------------------------------------------------------
\* C9: when the joiner's timeout fires while the call is started and no
\* remote stream has been observed, the session reports a connection
\* timeout, and offers a retry exactly while the retry count is below
\* the bound.
C9_JoinerMediaTimeout ==
    \A t \in obs.timedOut :
        (t.fn = "join" /\ t.waiting) =>
            /\ t.reported
            /\ t.offered <=> t.retry < MaxRetries

\* ------------------------------------------------------------------------
\* C10  Teardown with independently guarded steps
\* ------------------------------------------------------------------------
\* C10: in the latest cleanup, a failure while stopping the local tracks
\* did not prevent closing the peer connection, and a failure while
\* closing it prevented neither the initiator's deletion of the call
\* document nor the reset of the session state.
C10_TeardownCompletes ==
    /\ (obs.stopThrew /\ obs.hadPc) => obs.closeTried
    /\ (obs.closeThrew /\ obs.wantsDelete) => obs.deleteTried
    /\ (obs.stopThrew \/ obs.closeThrew) => obs.stateReset

\* ------------------------------------------------------------------------
\* C11  Reentrancy guard
\* ------------------------------------------------------------------------
\* the startCall / joinCall invocations of the component whose helper call
\* has not returned to them
InFlight == {r \in Runs : inv[r].at = "await"}

\* the call documents in the store that the component's createCall wrote
LiveCreated == {id \in CallIds : calls[id].exists /\ CreatedByMe(id)}

\* C11: the session has at most one createCall / joinCall in flight and at
\* most one call document of its own in the store.
C11_ReentrancyGuard ==
    /\ Cardinality(InFlight) <= 1
    /\ Cardinality(LiveCreated) <= 1

\* ------------------------------------------------------------------------
\* C12  Disconnected is not terminal
\* ------------------------------------------------------------------------
\* C12: no session whose transport went from connected to disconnected and
\* back to connected shows a lost-connection error: the monitor reports
\* only on failed and closed.
C12_DisconnectedNotTerminal ==
    \A x \in obs.lost :
        ~(x.saw = "disconnected" /\ ConnectionState(x.run) = "connected")

\* ------------------------------------------------------------------------
\* C13  Transport failure is surfaced and never retried automatically
\* ------------------------------------------------------------------------
\* the call of connection r is the started call of the committed render
ImplStarted(r) == ui.isCallStarted /\ ui.peerConnection = r

\* a lost connection is on screen: the status or the dialog
LostShown ==
    \/ ui.callStatus = "lost"
    \/ \E a \in alerts : a.kind = "disconnected"

\* C13: whenever the transport of the started call is failed or closed,
\* the session eventually shows the lost connection (or the call is no
\* longer the started one), and the component invokes createCall or
\* joinCall only in a step that handles a gesture of the user.
C13_FailureSurfacedNoAutoRetry ==
    /\ \A r \in Runs :
          [](ImplStarted(r) /\ ConnectionState(r) \in {"failed", "closed"}
                => <>(LostShown \/ ~ImplStarted(r)))
    /\ [][(\E r \in Runs : run[r].kind = "free" /\ run'[r].uid = Me)
              => obs'.presses = obs.presses + 1]_vars

\* ------------------------------------------------------------------------
\* C14  Connected only after media
\* ------------------------------------------------------------------------
\* C14: the committed render shows the connected status only when it also
\* holds a remote stream; a completed join handshake alone does not show
\* it.
C14_ConnectedOnlyAfterMedia ==
    ui.callStatus = "connected" => ui.remoteStream # 0

\* ------------------------------------------------------------------------
\* C15  Remote answer applied at most once
\* ------------------------------------------------------------------------
\* C15: the call listener of a createCall invokes setRemoteDescription
\* with an answer at most once, whatever snapshots of the call document
\* it receives and whenever they arrive.
C15_AnswerAppliedAtMostOnce ==
    \A r \in Runs : run[r].kind = "create" => pc[r].srdCalls <= 1

\* ------------------------------------------------------------------------
\* C16  No local candidate is lost
\* ------------------------------------------------------------------------
\* C16: no candidate the transport discovers after the local description
\* is set is dropped: each one is appended to its side's candidate log,
\* also those discovered while the call document is being created or the
\* answer is being written.
C16_NoLocalCandidateLost ==
    \A r \in Runs : pc[r].lost = {}

\* ------------------------------------------------------------------------
\* C17  Cascading delete
\* ------------------------------------------------------------------------
\* the call documents that addDoc created and deleteDoc removed
DeletedCalls == {id \in CallIds : id < nextCallId /\ ~calls[id].exists}

\* C17: once the initiator's end of call has deleted the call document,
\* neither candidate log of that call holds a candidate, now or later.
C17_CascadingDelete ==
    \A id \in DeletedCalls : callerCandidates[id] = {} /\ calleeCandidates[id] = {}

\* ------------------------------------------------------------------------
\* C18  Toggles outside a call are no-ops
\* ------------------------------------------------------------------------
\* C18: a press of the mute or camera button handled while no call of the
\* session is live (before a start or join succeeded, or after the end)
\* changes neither the enabled flag of a local track nor isMuted /
\* isVideoEnabled.
C18_TogglesOutsideCallNoOp ==
    \A t \in obs.toggles : ~t.live => ~t.changed

\* ------------------------------------------------------------------------
\* C19  Start requires local media
\* ------------------------------------------------------------------------
\* the component has not invoked createCall or joinCall: every start so
\* far was pressed without a local stream
NoAttempt == \A r \in Runs : run[r].uid # Me

\* C19: a session whose starts were all pressed without a local stream has
\* no peer connection, no call document and is not started, and once a
\* local stream is acquired it still offers the start button.
C19_StartRequiresLocalMedia ==
    NoAttempt =>
        /\ ~ui.isCallStarted /\ ui.peerConnection = 0
        /\ LiveCreated = {}
        /\ ui.localStream # 0 => ~ui.isCaller

\* ------------------------------------------------------------------------
\* C20  Quality monotonicity
\* ------------------------------------------------------------------------
\* good > medium > poor
QualityRank(l) == IF l = "good" THEN 2 ELSE IF l = "medium" THEN 1 ELSE 0

\* C20: of two stats reports processed while the same label was shown,
\* the one with at least the packet loss and at least the round-trip time
\* of the other never yields the better label.
C20_QualityMonotone ==
    Len(obs.samples) = 2 =>
        LET a == obs.samples[1]
            b == obs.samples[2]
        IN (a.prev = b.prev /\ b.loss >= a.loss /\ b.rtt >= a.rtt)
              => QualityRank(b.label) <= QualityRank(a.label)

\* ------------------------------------------------------------------------
\* C21  Quality thresholds
\* ------------------------------------------------------------------------
\* C21: after a stats report with packet loss L and round-trip time R ms
\* the label is poor if L > 5 or R > 300, else medium if L > 2 or R > 150,
\* else good, for every report, L = 0 and R = 0 included.
C21_QualityThresholds ==
    \A i \in 1..Len(obs.samples) :
        LET x == obs.samples[i]
        IN x.label = (IF x.loss > PoorLoss \/ x.rtt > PoorRtt THEN "poor"
                      ELSE IF x.loss > MediumLoss \/ x.rtt > MediumRtt THEN "medium"
                      ELSE "good")

\* ------------------------------------------------------------------------
\* C22  The quality monitor stops with the call
\* ------------------------------------------------------------------------
\* C22: no stats report changes the quality label once the call has
\* ended and the monitor's interval is cleared, also not the report of a
\* getStats() that was requested while the call was started.
C22_MonitorStopsWithCall ==
    \A x \in obs.stats : x.over => ~x.changed

\* no getUserMedia() request has succeeded
AllFailed == \A s \in Streams : streams[s].state = "none"

StartedUntouched ==
    {r \in Runs : inv[r].fn = "start" /\ inv[r].at = "polling" /\ obs.presses = 1}

\* C24: after startCall succeeded and until the user ends the call, a lost
\* connection or a timeout is acknowledged or the component unmounts, the
\* session stays started with the created call id, its peer connection is
\* open, its local tracks run and its call document exists
C24_StartStable ==
    \A r \in StartedUntouched :
        /\ Latest.isCallStarted /\ Latest.callId = run[r].callId
        /\ pc[r].state = "open"
        /\ streams[inv[r].cap.localStream].state = "live"
        /\ calls[run[r].callId].exists

\* the call document id is among the documents cleanup() is deleting
DeleteAsked(c, id) == \E i \in 1..Len(c) : c[i].id = id

\* C25: when the component unmounts while a call is started, the cleanup
\* that runs stops the local tracks of the stream the session holds at
\* that time, closes its peer connection and, on the initiator, deletes
\* its call document
C25_UnmountReleasesCurrent ==
    [][(eff.mounted /\ ~eff'.mounted /\ ui.isCallStarted)
        => /\ ui.localStream # 0 => streams'[ui.localStream].state = "stopped"
           /\ ui.peerConnection # 0 => pc'[ui.peerConnection].state = "closed"
           /\ (ui.isCaller /\ ui.callId # 0) => DeleteAsked(cln', ui.callId)]_vars

\* the attempts of the component whose failure its catch block has handled
HandledFailures == {r \in Runs : inv[r].at = "failed" /\ run[r].at = "threw"}

\* C26: once a failure of createCall or joinCall after its peer connection
\* was constructed has been handled, no peer connection of that attempt is
\* open and no listener of that attempt is subscribed
C26_FailedSetupLeavesNothingOpen ==
    \A r \in HandledFailures :
        /\ pc[r].state # "open"
        /\ ~lsn[r].callSub /\ ~lsn[r].candSub

\* the connections of this user that a finished cleanup() has closed
ClosedByCleanup == {r \in Runs : run[r].uid = Me /\ pc[r].state = "closed" /\ cln = <<>>}

\* C27: addIceCandidate is never invoked on a connection after its close,
\* and once the cleanup that closed a connection is complete, the call
\* listener and the candidates listener of that connection are unsubscribed
C27_NoTransportOpAfterClose ==
    /\ \A r \in Runs : run[r].uid = Me => pc[r].iceClosed = {}
    /\ \A r \in ClosedByCleanup : ~lsn[r].callSub /\ ~lsn[r].candSub

\* the joinCall runs
Joiners == {r \in Runs : run[r].kind = "join"}

\* C28: in joinCall the offer is the remote description before the answer
\* is created, the answer is the local description before it is written
\* to the call document, and the candidate handler and the listener on
\* callerCandidates exist only after that write; so the joiner never adds
\* a candidate without a remote description and appends no candidate of
\* its own before its answer is written
C28_JoinerOrdering ==
    \A r \in Joiners :
        /\ run[r].at \in {"createAnswer", "setLocalAnswer", "updateDoc", "done"}
              => pc[r].remoteDesc # 0
        /\ run[r].at \in {"updateDoc", "done"} => pc[r].localDesc = "answer"
        /\ (lsn[r].candSub \/ pc[r].onicecandidate) => run[r].at = "done"
        /\ pc[r].iceEarly = {}
        /\ \A c \in Cands :
              (run[r].callId \in CallIds /\ c[1] = r /\ c \in calleeCandidates[run[r].callId])
                  => run[r].at = "done"

\* a joiner that has written its answer has appended a candidate of its
\* own and has added a candidate of the creator
C28_Witness ==
    \E r \in Joiners :
        /\ run[r].at = "done" /\ pc[r].remoteDesc # 0
        /\ \E c \in calleeCandidates[run[r].callId] : c[1] = r
        /\ \E c \in callerCandidates[run[r].callId] : pc[r].iceCount[c] = 1

\* the runs whose call the component shows as started on an open connection
StartedOpen ==
    {r \in Runs : ui.isCallStarted /\ ui.peerConnection = r /\ pc[r].state = "open"}

\* C29: whenever a call is started, the tracks of the local stream that
\* was attached to its peer connection have not been stopped
C29_StartedCallHasLiveMedia ==
    \A r \in StartedOpen : streams[run[r].stream].state = "live"

\* the initiator's runs whose call is started on an open connection that
\* has a remote stream the session has not recorded
Unrecorded ==
    {r \in Runs : /\ inv[r].fn = "start"
                  /\ Latest.isCallStarted /\ Latest.peerConnection = r
                  /\ pc[r].state = "open"
                  /\ RemoteStreamOf(r) # 0 /\ Latest.remoteStream = 0}

\* C30: while the initiator's call is started and no remote stream is
\* recorded, a remote stream available on the connection is going to be
\* recorded: the poll that records it is still scheduled
C30_InitiatorKeepsWatching ==
    \A r \in Unrecorded : Timer("poll", r) \in timers

====
